---- MODULE Spec2Model ----
(***************************************************************************)
(* A model of haproxy/cmds.py: the HAProxy command classes, the text each  *)
(* sends over the control socket, and the decoders of the replies.         *)
(*                                                                         *)
(* A Python str is a sequence of one-character strings; a dict is a        *)
(* function whose domain is its set of keys; a list is a sequence.         *)
(***************************************************************************)
EXTENDS Integers, Sequences, FiniteSets, TLC

VARIABLES objs, clsArgs, cols, ret, ctor

vars == <<objs, clsArgs, cols, ret, ctor>>

----------------------------------------------------------------------------
(* String literals of the source. *)

s_backend == <<"b", "a", "c", "k", "e", "n", "d">>
s_server == <<"s", "e", "r", "v", "e", "r">>
s_weight == <<"w", "e", "i", "g", "h", "t">>
s_value == <<"v", "a", "l", "u", "e">>
s_svname == <<"s", "v", "n", "a", "m", "e">>
s_status == <<"s", "t", "a", "t", "u", "s">>
s_bin == <<"b", "i", "n">>
s_bout == <<"b", "o", "u", "t">>
s_BACKEND == <<"B", "A", "C", "K", "E", "N", "D">>
s_enable == <<"e", "n", "a", "b", "l", "e">>
s_disable == <<"d", "i", "s", "a", "b", "l", "e">>
s_frontend == <<"f", "r", "o", "n", "t", "e", "n", "d">>
s_CRLF == <<"\r", "\n">>
s_WrongNumber == <<"W", "r", "o", "n", "g", " ", "n", "u", "m", "b", "e", "r", " ", "o", "f", " ", "a", "r", "g", "u", "m", "e", "n", "t", "s", ".", " ", "R", "e", "q", "u", "i", "r", "e", "d", " ", "a", "r", "g", "u", "m", "e", "n", "t", "s", " ", "a", "r", "e", " ">>
s_NoAction == <<"N", "o", " ", "a", "c", "t", "i", "o", "n", " ", "s", "p", "e", "c", "i", "f", "i", "e", "d">>
s_CouldNotParse == <<"C", "o", "u", "l", "d", " ", "n", "o", "t", " ", "p", "a", "r", "s", "e", " ", "c", "o", "l", "u", "m", "n", "s", " ", "f", "r", "o", "m", " ", "H", "A", "P", "r", "o", "x", "y", " ", "o", "u", "t", "p", "u", "t">>
s_Name == <<"N", "a", "m", "e", ":", " ">>
s_Status == <<"S", "t", "a", "t", "u", "s", ":", " ">>
s_Weight == <<"W", "e", "i", "g", "h", "t", ":", " ">>
s_bIn == <<"b", "I", "n", ":", " ">>
s_bOut == <<"b", "O", "u", "t", ":", " ">>

----------------------------------------------------------------------------
(* The str and dict operations the source uses. *)

EmptyDict == [k \in {} |-> <<>>]

(* sep.join(parts) *)
RECURSIVE join(_, _)
join(sep, parts) ==
    IF Len(parts) = 0 THEN <<>>
    ELSE IF Len(parts) = 1 THEN parts[1]
    ELSE parts[1] \o sep \o join(sep, Tail(parts))

(* s.split(c) for a one-character separator c: never an empty list. *)
split(s, c) ==
    LET P == {i \in 1..Len(s) : s[i] = c}
        n == Cardinality(P)
        at(k) == IF k = 0 THEN 0
                 ELSE IF k = n + 1 THEN Len(s) + 1
                 ELSE CHOOSE p \in P : Cardinality({q \in P : q < p}) = k - 1
    IN  [k \in 1..(n + 1) |-> SubSeq(s, at(k - 1) + 1, at(k) - 1)]

(* s.startswith(p) *)
startswith(s, p) == Len(p) <= Len(s) /\ SubSeq(s, 1, Len(p)) = p

(* s.upper(), character by character *)
upperChar(c) ==
    CASE c = "a" -> "A" [] c = "b" -> "B" [] c = "c" -> "C" [] c = "d" -> "D"
      [] c = "e" -> "E" [] c = "f" -> "F" [] c = "g" -> "G" [] c = "h" -> "H"
      [] c = "i" -> "I" [] c = "j" -> "J" [] c = "k" -> "K" [] c = "l" -> "L"
      [] c = "m" -> "M" [] c = "n" -> "N" [] c = "o" -> "O" [] c = "p" -> "P"
      [] c = "q" -> "Q" [] c = "r" -> "R" [] c = "s" -> "S" [] c = "t" -> "T"
      [] c = "u" -> "U" [] c = "v" -> "V" [] c = "w" -> "W" [] c = "x" -> "X"
      [] c = "y" -> "Y" [] c = "z" -> "Z" [] OTHER -> c

upper(s) == [i \in 1..Len(s) |-> upperChar(s[i])]

(* A format string is a sequence of segments: literal text, or %(key)s. *)
Lit(t) == [isKey |-> FALSE, key |-> <<>>, lit |-> t]
Par(k) == [isKey |-> TRUE, key |-> k, lit |-> <<>>]

(* fmt % d : the keys the format names must be keys of d (else KeyError). *)
formatKeysOk(fmt, d) ==
    \A n \in 1..Len(fmt) : fmt[n].isKey => fmt[n].key \in DOMAIN d

RECURSIVE format(_, _)
format(fmt, d) ==
    IF Len(fmt) = 0 THEN <<>>
    ELSE (IF fmt[1].isKey THEN d[fmt[1].key] ELSE fmt[1].lit)
         \o format(Tail(fmt), d)

(* What a call gives back: a value, or a raised exception and its message. *)
Return(v) == [ok |-> TRUE, exc |-> "", val |-> v]
Raise(e, msg) == [ok |-> FALSE, exc |-> e, val |-> msg]

----------------------------------------------------------------------------
(* The command classes and their class attributes. *)

Variants == {"enableServer", "disableServer", "setWeight", "getWeight",
             "setServerAgent", "setServerHealth", "setServerState",
             "showErrors", "showInfo", "showSessions", "showFrontends",
             "showBackends", "listServers"}

p_args(v) ==
    CASE v \in {"enableServer", "disableServer", "getWeight"} -> <<s_backend, s_server>>
      [] v = "setWeight" -> <<s_backend, s_server, s_weight>>
      [] v \in {"setServerAgent", "setServerHealth", "setServerState"} ->
             <<s_backend, s_server, s_value>>
      [] v = "listServers" -> <<s_backend>>
      [] OTHER -> <<>>

cmdTxt(v) ==
    CASE v \in {"enableServer", "disableServer"} ->
             <<Lit(<<"s", "e", "r", "v", "e", "r", " ">>), Par(s_backend), Lit(<<"/">>),
               Par(s_server), Lit(s_CRLF)>>
      [] v = "setWeight" ->
             <<Lit(<<"s", "e", "t", " ", "w", "e", "i", "g", "h", "t", " ">>), Par(s_backend),
               Lit(<<"/">>), Par(s_server), Lit(<<" ">>), Par(s_weight), Lit(s_CRLF)>>
      [] v = "getWeight" ->
             <<Lit(<<"g", "e", "t", " ", "w", "e", "i", "g", "h", "t", " ">>), Par(s_backend),
               Lit(<<"/">>), Par(s_server), Lit(s_CRLF)>>
      [] v = "showErrors" ->
             <<Lit(<<"s", "h", "o", "w", " ", "e", "r", "r", "o", "r", "s">> \o s_CRLF)>>
      [] v = "setServerAgent" ->
             <<Lit(<<"s", "e", "t", " ", "s", "e", "r", "v", "e", "r", " ">>), Par(s_backend),
               Lit(<<"/">>), Par(s_server), Lit(<<" ", "a", "g", "e", "n", "t", " ">>),
               Par(s_value), Lit(s_CRLF)>>
      [] v = "setServerHealth" ->
             <<Lit(<<"s", "e", "t", " ", "s", "e", "r", "v", "e", "r", " ">>), Par(s_backend),
               Lit(<<"/">>), Par(s_server), Lit(<<" ", "h", "e", "a", "l", "t", "h", " ">>),
               Par(s_value), Lit(s_CRLF)>>
      [] v = "setServerState" ->
             <<Lit(<<"s", "e", "t", " ", "s", "e", "r", "v", "e", "r", " ">>), Par(s_backend),
               Lit(<<"/">>), Par(s_server), Lit(<<" ", "s", "t", "a", "t", "e", " ">>),
               Par(s_value), Lit(s_CRLF)>>
      [] v = "showInfo" ->
             <<Lit(<<"s", "h", "o", "w", " ", "i", "n", "f", "o">> \o s_CRLF)>>
      [] v = "showSessions" ->
             <<Lit(<<"s", "h", "o", "w", " ", "s", "e", "s", "s">> \o s_CRLF)>>
      [] v \in {"showFrontends", "showBackends", "listServers"} ->
             <<Lit(<<"s", "h", "o", "w", " ", "s", "t", "a", "t">> \o s_CRLF)>>
      [] OTHER -> <<>>

switch(v) ==
    CASE v = "disableServer" -> s_disable
      [] v = "enableServer" -> s_enable
      [] v = "showFrontends" -> s_frontend
      [] v = "showBackends" -> s_backend
      [] OTHER -> <<>>

(* Cmd.WhatArgs *)
WhatArgs(v) == join(<<",">>, p_args(v))

(* As allArgsGiven, with any() where the source has all(). *)
anyArgGiven(v, kwargs) ==
    \E n \in 1..Len(p_args(v)) : p_args(v)[n] \in DOMAIN kwargs

(* The test of Cmd.__init__: every required name is a key of kwargs. *)
allArgsGiven(v, kwargs) ==
    \A n \in 1..Len(p_args(v)) : p_args(v)[n] \in DOMAIN kwargs

(* As Cmd.getCmd, returning cmdTxt without applying the args to it: every *)
(* %(key)s stays in the text.                                              *)
Cmd_getCmd_unformatted(v, args) ==
    LET keys == {cmdTxt(v)[n].key : n \in {m \in 1..Len(cmdTxt(v)) : cmdTxt(v)[m].isKey}}
    IN  Return(format(cmdTxt(v), [k \in keys |-> <<"%", "(">> \o k \o <<")", "s">>]))

(* Cmd.getCmd: cmdTxt % args *)
Cmd_getCmd(v, args) ==
    IF formatKeysOk(cmdTxt(v), args)
    THEN Return(format(cmdTxt(v), args))
    ELSE Raise("KeyError", <<>>)

(* As _ableServer.getCmd, without the override: the switch is left out. *)
ableServer_getCmd_noSwitch(v, args) == Cmd_getCmd(v, args)

(* _ableServer.getCmd: " ".join((switch, cmdTxt % args)) *)
ableServer_getCmd(v, args) ==
    IF switch(v) = <<>> THEN Raise("Exception", s_NoAction)
    ELSE IF ~formatKeysOk(cmdTxt(v), args) THEN Raise("KeyError", <<>>)
    ELSE Return(join(<<" ">>, <<switch(v), format(cmdTxt(v), args)>>))

(* getCmd as the instance's class resolves it. *)
getCmd(v, args) ==
    IF v \in {"enableServer", "disableServer"}
    THEN ableServer_getCmd(v, args)
    ELSE Cmd_getCmd(v, args)

----------------------------------------------------------------------------
(* The decoders of the replies. *)

(* Cmd.getResult and Cmd.getResultObj: the reply as it is. *)
Cmd_getResult(res) == Return(res)

Cmd_getResultObj(res) == Return(res)

(* showErrors.getResultObj and showSessions.getResultObj *)
splitLines_getResultObj(res) == Return(split(res, "\n"))

(* re.match of the pattern of line 132 on a line e (a piece of a split on   *)
(* the newline, so the dot matches each of its characters): one character  *)
(* that is no comma, at least one more character, then a comma, TYPE and a  *)
(* comma somewhere, then anything.                                          *)
reMatchType(type, e) ==
    LET pat == <<",">> \o type \o <<",">>
    IN  /\ Len(e) >= 1
        /\ e[1] # ","
        /\ \E k \in 3..(Len(e) - Len(pat) + 1) : SubSeq(e, k, k + Len(pat) - 1) = pat

(* showFBEnds._getResult *)
showFBEnds_getResult(v, res) ==
    IF switch(v) = <<>> THEN Raise("Exception", s_NoAction)
    ELSE LET lines == split(res, "\n")
             hits == SelectSeq(lines, LAMBDA e : reMatchType(upper(switch(v)), e))
         IN  Return([n \in 1..Len(hits) |-> split(hits[n], ",")[1]])

(* showFBEnds.getResult: "\n".join(self._getResult(res)) *)
showFBEnds_getResultRaw(v, res) ==
    LET r == showFBEnds_getResult(v, res)
    IN  IF r.ok THEN Return(join(<<"\n">>, r.val)) ELSE r

(* showInfo.getResultObj: k, v = line.split(':') for every line; a key     *)
(* assigned twice keeps its last value.                                      *)
showInfo_getResultObj(res) ==
    LET lines == split(res, "\n")
        parts(n) == split(lines[n], ":")
        keys == {parts(n)[1] : n \in 1..Len(lines)}
        last(k) == CHOOSE n \in 1..Len(lines) :
                      /\ parts(n)[1] = k
                      /\ \A m \in 1..Len(lines) : parts(m)[1] = k => m <= n
    IN  IF \E n \in 1..Len(lines) : Len(parts(n)) # 2
        THEN Raise("ValueError", <<>>)
        ELSE Return([k \in keys |-> parts(last(k))[2]])

(* As baseStat.getCols, with the columns numbered from 1. *)
getCols_fromOne(res) ==
    LET first == split(res, "\n")[1]
        columns == split(Tail(first), ",")
        names == {columns[n] : n \in 1..Len(columns)}
        lastAt(a) == CHOOSE n \in 1..Len(columns) :
                        /\ columns[n] = a
                        /\ \A m \in 1..Len(columns) : columns[m] = a => m <= n
    IN  IF Len(first) >= 1 /\ first[1] = "#"
        THEN Return([a \in names |-> lastAt(a)])
        ELSE Raise("Exception", s_CouldNotParse)

(* baseStat.getCols: re.match of the pattern of line 176 matches at the     *)
(* start of res only; the group columns is the rest of the first line.      *)
(* dict((a, i) ...): a name listed twice keeps its last index.              *)
getCols(res) ==
    LET first == split(res, "\n")[1]
        columns == split(Tail(first), ",")
        names == {columns[n] : n \in 1..Len(columns)}
        lastAt(a) == CHOOSE n \in 1..Len(columns) :
                        /\ columns[n] = a
                        /\ \A m \in 1..Len(columns) : columns[m] = a => m <= n
    IN  IF Len(first) >= 1 /\ first[1] = "#"
        THEN Return([a \in names |-> lastAt(a) - 1])
        ELSE Raise("Exception", s_CouldNotParse)

(* outCols[cols[name]]: "" when it can be read, else the exception raised. *)
colExc(c, outCols, name) ==
    IF name \notin DOMAIN c THEN "KeyError"
    ELSE IF c[name] >= Len(outCols) THEN "IndexError"
    ELSE ""

colAt(c, outCols, name) == outCols[c[name] + 1]

(* The exception a line of the backend raises in the loop body, "" if none: *)
(* the lookups in the order the body makes them.                            *)
rowExc(c, outCols) ==
    IF colExc(c, outCols, s_svname) # "" THEN colExc(c, outCols, s_svname)
    ELSE IF colAt(c, outCols, s_svname) = s_BACKEND THEN ""
    ELSE IF colExc(c, outCols, s_status) # "" THEN colExc(c, outCols, s_status)
    ELSE IF colExc(c, outCols, s_weight) # "" THEN colExc(c, outCols, s_weight)
    ELSE IF colExc(c, outCols, s_bin) # "" THEN colExc(c, outCols, s_bin)
    ELSE colExc(c, outCols, s_bout)

(* " ".join(("Name: %s" % ..., "Status: %s" % ..., ...)) *)
report(c, outCols) ==
    join(<<" ">>, <<s_Name \o colAt(c, outCols, s_svname),
                    s_Status \o colAt(c, outCols, s_status),
                    s_Weight \o colAt(c, outCols, s_weight),
                    s_bIn \o colAt(c, outCols, s_bin),
                    s_bOut \o colAt(c, outCols, s_bout)>>)

(* As the loop of listServers.getResultObj, testing line.startswith of    *)
(* the backend name without the comma after it.                            *)
RECURSIVE serversLoop_prefix(_, _, _, _, _)
serversLoop_prefix(backend, c, lines, n, servers) ==
    IF n > Len(lines) THEN Return(servers)
    ELSE IF ~startswith(lines[n], backend)
         THEN serversLoop_prefix(backend, c, lines, n + 1, servers)
    ELSE LET outCols == split(lines[n], ",")
         IN  IF rowExc(c, outCols) # "" THEN Raise(rowExc(c, outCols), <<>>)
             ELSE IF colAt(c, outCols, s_svname) # s_BACKEND
                  THEN serversLoop_prefix(backend, c, lines, n + 1,
                                          Append(servers, report(c, outCols)))
             ELSE serversLoop_prefix(backend, c, lines, n + 1, servers)

(* The loop of listServers.getResultObj from line n on. *)
RECURSIVE serversLoop(_, _, _, _, _)
serversLoop(backend, c, lines, n, servers) ==
    IF n > Len(lines) THEN Return(servers)
    ELSE IF ~startswith(lines[n], backend \o <<",">>)
         THEN serversLoop(backend, c, lines, n + 1, servers)
    ELSE LET outCols == split(lines[n], ",")
         IN  IF rowExc(c, outCols) # "" THEN Raise(rowExc(c, outCols), <<>>)
             ELSE IF colAt(c, outCols, s_svname) # s_BACKEND
                  THEN serversLoop(backend, c, lines, n + 1,
                                   Append(servers, report(c, outCols)))
             ELSE serversLoop(backend, c, lines, n + 1, servers)

(* cols = self.getCols(res) *)
bindCols(res) == getCols(res)

(* As listServers.getResultObj, returning no servers for an empty reply    *)
(* before the header is looked at.                                         *)
listServers_getResultObj_emptyOk(args, res) ==
    LET c == bindCols(res)
    IN  IF Len(res) = 0 THEN Return(<<>>)
        ELSE IF ~c.ok THEN c
        ELSE IF s_backend \notin DOMAIN args THEN Raise("KeyError", <<>>)
        ELSE serversLoop(args[s_backend], c.val, split(res, "\n"), 1, <<>>)

(* listServers.getResultObj *)
listServers_getResultObj(args, res) ==
    LET c == bindCols(res)
    IN  IF ~c.ok THEN c
        ELSE IF s_backend \notin DOMAIN args THEN Raise("KeyError", <<>>)
        ELSE serversLoop(args[s_backend], c.val, split(res, "\n"), 1, <<>>)

(* listServers.getResult: "\n".join(self.getResultObj(res)) *)
listServers_getResult(args, res) ==
    LET r == listServers_getResultObj(args, res)
    IN  IF r.ok THEN Return(join(<<"\n">>, r.val)) ELSE r

(* getResult and getResultObj as the instance's class resolves them. *)
getResult(v, args, res) ==
    CASE v \in {"showFrontends", "showBackends"} -> showFBEnds_getResultRaw(v, res)
      [] v = "listServers" -> listServers_getResult(args, res)
      [] OTHER -> Cmd_getResult(res)

getResultObj(v, args, res) ==
    CASE v \in {"showFrontends", "showBackends"} -> showFBEnds_getResult(v, res)
      [] v = "listServers" -> listServers_getResultObj(args, res)
      [] v = "showInfo" -> showInfo_getResultObj(res)
      [] v \in {"showErrors", "showSessions"} -> splitLines_getResultObj(res)
      [] OTHER -> Cmd_getResultObj(res)

----------------------------------------------------------------------------
(* The state: the command instances a caller holds (objs), the class       *)
(* attribute Cmd.args (clsArgs), the column map bound by the latest         *)
(* listServers.getResultObj (cols), the latest call and what it gave (ret),  *)
(* and the class and keyword arguments each instance was built from (ctor). *)

MaxInst == 2

Insts == 1..MaxInst

NoObj == [cls |-> "none", own |-> TRUE, args |-> EmptyDict]

NoCtor == [cls |-> "none", kwargs |-> EmptyDict]

Call(op, i, v, arg, out) == [op |-> op, inst |-> i, cls |-> v, arg |-> arg, out |-> out]

(* self.args: the instance attribute when the instance has one, else the   *)
(* class attribute.                                                         *)
selfArgs(i) == IF objs[i].own THEN objs[i].args ELSE clsArgs

Init ==
    /\ objs = [i \in Insts |-> NoObj]
    /\ clsArgs = EmptyDict
    /\ cols = EmptyDict
    /\ ret = Call("none", 0, "none", <<>>, Return(<<>>))
    /\ ctor = [i \in Insts |-> NoCtor]

(* As Cmd.__init__, with self.args.update(kwargs) for self.args = kwargs:  *)
(* the instance gets no attribute of its own and the class dict is written. *)
Cmd_init_shared(i, v, kwargs) ==
    /\ objs[i].cls = "none"
    /\ clsArgs' = [k \in DOMAIN clsArgs \cup DOMAIN kwargs |->
                      IF k \in DOMAIN kwargs THEN kwargs[k] ELSE clsArgs[k]]
    /\ IF allArgsGiven(v, kwargs)
       THEN /\ objs' = [objs EXCEPT ![i] = [cls |-> v, own |-> FALSE, args |-> EmptyDict]]
            /\ ctor' = [ctor EXCEPT ![i] = [cls |-> v, kwargs |-> kwargs]]
            /\ ret' = Call("init", i, v, kwargs, Return(<<>>))
       ELSE /\ UNCHANGED <<objs, ctor>>
            /\ ret' = Call("init", i, v, kwargs,
                           Raise("Exception", s_WrongNumber \o WhatArgs(v)))
    /\ UNCHANGED cols

(* Cmd.__init__: a constructor that raises leaves the caller no instance.  *)
Cmd_init(i, v, kwargs) ==
    /\ objs[i].cls = "none"
    /\ IF allArgsGiven(v, kwargs)
       THEN /\ objs' = [objs EXCEPT ![i] = [cls |-> v, own |-> TRUE, args |-> kwargs]]
            /\ ctor' = [ctor EXCEPT ![i] = [cls |-> v, kwargs |-> kwargs]]
            /\ ret' = Call("init", i, v, kwargs, Return(<<>>))
       ELSE /\ UNCHANGED <<objs, ctor>>
            /\ ret' = Call("init", i, v, kwargs,
                           Raise("Exception", s_WrongNumber \o WhatArgs(v)))
    /\ UNCHANGED <<clsArgs, cols>>

CallGetCmd(i) ==
    /\ objs[i].cls # "none"
    /\ ret' = Call("getCmd", i, objs[i].cls, <<>>, getCmd(objs[i].cls, selfArgs(i)))
    /\ UNCHANGED <<objs, clsArgs, cols, ctor>>

(* The local cols of listServers.getResultObj after the call: unbound when *)
(* getCols raised.                                                          *)
colsAfter(v, res) ==
    IF v # "listServers" THEN cols
    ELSE IF bindCols(res).ok THEN bindCols(res).val
    ELSE EmptyDict

CallGetResult(i, res) ==
    /\ objs[i].cls # "none"
    /\ ret' = Call("getResult", i, objs[i].cls, res,
                   getResult(objs[i].cls, selfArgs(i), res))
    /\ cols' = colsAfter(objs[i].cls, res)
    /\ UNCHANGED <<objs, clsArgs, ctor>>

CallGetResultObj(i, res) ==
    /\ objs[i].cls # "none"
    /\ ret' = Call("getResultObj", i, objs[i].cls, res,
                   getResultObj(objs[i].cls, selfArgs(i), res))
    /\ cols' = colsAfter(objs[i].cls, res)
    /\ UNCHANGED <<objs, clsArgs, ctor>>

(* baseStat.getCols called on a listServers instance. *)
CallGetCols(i, res) ==
    /\ objs[i].cls = "listServers"
    /\ ret' = Call("getCols", i, objs[i].cls, res, getCols(res))
    /\ UNCHANGED <<objs, clsArgs, cols, ctor>>

----------------------------------------------------------------------------
(* The inputs. *)

SeqsUpTo(S, n) == UNION {[1..k -> S] : k \in 0..n}

(* Parameter values: every string of at most MaxValLen of these characters. *)
MaxValLen == 1

ValChars == {"w", "/", " "}

Values == SeqsUpTo(ValChars, MaxValLen)

ParamNames == {s_backend, s_server, s_weight, s_value}

Kwargs == UNION {[D -> Values] : D \in SUBSET ParamNames}

(* Statistics replies: a first line, then at most MaxRows more lines. *)
MaxRows == 2

HdrStd == <<"#", "p", "x", "n", "a", "m", "e", ",", "s", "v", "n", "a", "m", "e", ",", "s", "t", "a", "t", "u", "s", ",", "w", "e", "i", "g", "h", "t", ",", "b", "i", "n", ",", "b", "o", "u", "t">>
HdrRev == <<"#", "p", "x", "n", "a", "m", "e", ",", "b", "o", "u", "t", ",", "b", "i", "n", ",", "w", "e", "i", "g", "h", "t", ",", "s", "t", "a", "t", "u", "s", ",", "s", "v", "n", "a", "m", "e">>
HdrNoStatus == <<"#", "p", "x", "n", "a", "m", "e", ",", "s", "v", "n", "a", "m", "e", ",", "w", "e", "i", "g", "h", "t", ",", "b", "i", "n", ",", "b", "o", "u", "t">>
HdrNoSvname == <<"#", "p", "x", "n", "a", "m", "e", ",", "s", "t", "a", "t", "u", "s", ",", "w", "e", "i", "g", "h", "t", ",", "b", "i", "n", ",", "b", "o", "u", "t">>
RowServer == <<"w", ",", "s", ",", "U", ",", "5", ",", "1", ",", "2">>
RowAggregate == <<"w", ",", "B", "A", "C", "K", "E", "N", "D", ",", "U", ",", "9", ",", "3", ",", "4">>
RowShort == <<"w", ",", "s">>
RowFront1 == <<"w", ",", "F", "R", "O", "N", "T", "E", "N", "D", ",", "O", ",", "0", ",", "1", ",", "2">>
RowFront2 == <<"w", "x", ",", "F", "R", "O", "N", "T", "E", "N", "D", ",", "O", ",", "0", ",", "1", ",", "2">>
RowBack2 == <<"w", "x", ",", "B", "A", "C", "K", "E", "N", "D", ",", "U", ",", "9", ",", "3", ",", "4">>
RowComma == <<",", "x", ",", "F", "R", "O", "N", "T", "E", "N", "D", ",">>

Headers == {HdrStd, HdrRev, HdrNoStatus, HdrNoSvname}

Rows == {RowServer, RowAggregate, RowShort, RowFront1, RowFront2, RowBack2,
         RowComma, <<>>, HdrStd}

StatReplies ==
    {join(<<"\n">>, h \o rs) :
        h \in {<<>>} \cup {<<x>> : x \in Headers}, rs \in SeqsUpTo(Rows, MaxRows)}

Backends == {<<"w">>, <<"w", ",", "s">>, <<"x">>}

(* Info replies: at most MaxInfoLines lines. *)
MaxInfoLines == 3

InfoLines == {<<"N", ":", " ", "H">>, <<"V", ":", " ", "2">>, <<"b", "a", "d">>,
              <<"a", ":", "b", ":", "c">>, <<>>}

InfoReplies == {join(<<"\n">>, ls) : ls \in SeqsUpTo(InfoLines, MaxInfoLines)}

StatVariants == {"showFrontends", "showBackends", "listServers"}

DecodeVariants == StatVariants \cup {"showInfo", "showErrors", "showSessions"}

DecodeKwargs(v) ==
    IF v = "listServers" THEN {EmptyDict} \cup {s_backend :> b : b \in Backends}
    ELSE {EmptyDict}

RepliesFor(v) == IF v \in StatVariants THEN StatReplies ELSE InfoReplies

----------------------------------------------------------------------------
(* SpecCmd: one construction of any class from any keyword arguments, and   *)
(* the instance it gives rendered.                                          *)

NextCmd ==
    \/ /\ ret.op = "none"
       /\ \E v \in Variants, kwargs \in Kwargs : Cmd_init(1, v, kwargs)
    \/ CallGetCmd(1)

SpecCmd == Init /\ [][NextCmd]_vars

(* SpecDecode: one instance of a class that decodes, and one call of one of *)
(* its decoders on any reply.                                               *)

NextDecode ==
    \/ /\ ret.op = "none"
       /\ \E v \in DecodeVariants : \E kwargs \in DecodeKwargs(v) : Cmd_init(1, v, kwargs)
    \/ /\ ret.op = "init"
       /\ \E res \in RepliesFor(objs[1].cls) : CallGetResult(1, res)
    \/ /\ ret.op = "init"
       /\ \E res \in RepliesFor(objs[1].cls) : CallGetResultObj(1, res)
    \/ /\ ret.op = "init"
       /\ \E res \in StatReplies : CallGetCols(1, res)

SpecDecode == Init /\ [][NextDecode]_vars

(* Spec: any number of instances up to MaxInst, built and used in any      *)
(* order.                                                                   *)

HistVariants == {"enableServer", "showFrontends", "listServers"}

HistKwargs ==
    {EmptyDict,
     (s_backend :> <<"w">>) @@ (s_server :> <<"s">>),
     (s_backend :> <<"w", "x">>) @@ (s_server :> <<"t">>)}

HistReplies ==
    {join(<<"\n">>, <<HdrStd, RowServer, RowFront2>>),
     join(<<"\n">>, <<HdrRev, RowServer, RowFront2>>)}

Next ==
    \/ \E i \in Insts, v \in HistVariants, kwargs \in HistKwargs : Cmd_init(i, v, kwargs)
    \/ \E i \in Insts : CallGetCmd(i)
    \/ \E i \in Insts, res \in HistReplies : CallGetResult(i, res)
    \/ \E i \in Insts, res \in HistReplies : CallGetResultObj(i, res)
    \/ \E i \in Insts, res \in HistReplies : CallGetCols(i, res)

Spec == Init /\ [][Next]_vars

----------------------------------------------------------------------------
(* The command table of the specification: required parameters and wire    *)
(* text of each variant.                                                    *)

Required(v) ==
    CASE v \in {"enableServer", "disableServer", "getWeight"} -> <<s_backend, s_server>>
      [] v = "setWeight" -> <<s_backend, s_server, s_weight>>
      [] v \in {"setServerAgent", "setServerHealth", "setServerState"} ->
             <<s_backend, s_server, s_value>>
      [] v = "listServers" -> <<s_backend>>
      [] v \in {"showErrors", "showInfo", "showSessions", "showFrontends", "showBackends"} -> <<>>

RequiredSet(v) == {Required(v)[n] : n \in 1..Len(Required(v))}

WireText(v, a) ==
    CASE v = "enableServer" ->
             <<"e", "n", "a", "b", "l", "e", " ", "s", "e", "r", "v", "e", "r", " ">>
             \o a[s_backend] \o <<"/">> \o a[s_server] \o <<"\r", "\n">>
      [] v = "disableServer" ->
             <<"d", "i", "s", "a", "b", "l", "e", " ", "s", "e", "r", "v", "e", "r", " ">>
             \o a[s_backend] \o <<"/">> \o a[s_server] \o <<"\r", "\n">>
      [] v = "setWeight" ->
             <<"s", "e", "t", " ", "w", "e", "i", "g", "h", "t", " ">>
             \o a[s_backend] \o <<"/">> \o a[s_server] \o <<" ">> \o a[s_weight]
             \o <<"\r", "\n">>
      [] v = "getWeight" ->
             <<"g", "e", "t", " ", "w", "e", "i", "g", "h", "t", " ">>
             \o a[s_backend] \o <<"/">> \o a[s_server] \o <<"\r", "\n">>
      [] v = "setServerAgent" ->
             <<"s", "e", "t", " ", "s", "e", "r", "v", "e", "r", " ">>
             \o a[s_backend] \o <<"/">> \o a[s_server]
             \o <<" ", "a", "g", "e", "n", "t", " ">> \o a[s_value] \o <<"\r", "\n">>
      [] v = "setServerHealth" ->
             <<"s", "e", "t", " ", "s", "e", "r", "v", "e", "r", " ">>
             \o a[s_backend] \o <<"/">> \o a[s_server]
             \o <<" ", "h", "e", "a", "l", "t", "h", " ">> \o a[s_value] \o <<"\r", "\n">>
      [] v = "setServerState" ->
             <<"s", "e", "t", " ", "s", "e", "r", "v", "e", "r", " ">>
             \o a[s_backend] \o <<"/">> \o a[s_server]
             \o <<" ", "s", "t", "a", "t", "e", " ">> \o a[s_value] \o <<"\r", "\n">>
      [] v = "showErrors" ->
             <<"s", "h", "o", "w", " ", "e", "r", "r", "o", "r", "s", "\r", "\n">>
      [] v = "showInfo" -> <<"s", "h", "o", "w", " ", "i", "n", "f", "o", "\r", "\n">>
      [] v = "showSessions" -> <<"s", "h", "o", "w", " ", "s", "e", "s", "s", "\r", "\n">>
      [] v \in {"showFrontends", "showBackends", "listServers"} ->
             <<"s", "h", "o", "w", " ", "s", "t", "a", "t", "\r", "\n">>

----------------------------------------------------------------------------
(* C1: for every command variant built with all of its required           *)
(* parameters, getCmd returns exactly the wire text of the variant with the *)
(* parameter values in place, ended by CR LF and nothing else; for          *)
(* enableServer and disableServer it is the switch keyword, one space, then *)
(* server <backend>/<server>.                                               *)
C1_WireText ==
    ret.op = "getCmd" =>
        /\ RequiredSet(ret.cls) \subseteq DOMAIN ctor[ret.inst].kwargs
        /\ ret.out = Return(WireText(ret.cls, ctor[ret.inst].kwargs))

C1_Witness ==
    /\ ret.op = "getCmd"
    /\ ret.cls = "enableServer"
    /\ ctor[1].kwargs = (s_backend :> <<"w">>) @@ (s_server :> <<"/">>)
                        @@ (s_value :> <<" ">>)
    /\ ret.out.val = <<"e", "n", "a", "b", "l", "e", " ", "s", "e", "r", "v", "e", "r", " ",
                       "w", "/", "/", "\r", "\n">>

(* C2: construction fails if and only if a required parameter name is      *)
(* absent from the mapping; the message of the failure lists the required   *)
(* names of the variant, comma-joined in declared order; with no required   *)
(* name absent, extra parameters or not, construction gives the instance.   *)
C2_Construct ==
    ret.op = "init" =>
        /\ ~ret.out.ok <=> (\E k \in RequiredSet(ret.cls) : k \notin DOMAIN ret.arg)
        /\ ~ret.out.ok =>
               /\ ret.out.val = s_WrongNumber \o join(<<",">>, Required(ret.cls))
               /\ objs[ret.inst].cls = "none"
        /\ ret.out.ok =>
               /\ objs[ret.inst].cls = ret.cls
               /\ selfArgs(ret.inst) = ret.arg

C2_Witness ==
    /\ ret.op = "init"
    /\ ret.cls = "setWeight"
    /\ DOMAIN ret.arg = {s_backend, s_weight, s_value}
    /\ ~ret.out.ok
    /\ ret.out.val = s_WrongNumber \o s_backend \o <<",">> \o s_server \o <<",">> \o s_weight

(* Re-parsing a text against a format: every mapping of the format's keys  *)
(* to parameter values that the format renders to exactly this text.       *)
RECURSIVE parses(_, _)
parses(fmt, text) ==
    IF Len(fmt) = 0 THEN (IF Len(text) = 0 THEN {EmptyDict} ELSE {})
    ELSE IF ~fmt[1].isKey
         THEN IF startswith(text, fmt[1].lit)
              THEN parses(Tail(fmt), SubSeq(text, Len(fmt[1].lit) + 1, Len(text)))
              ELSE {}
    ELSE UNION {{(fmt[1].key :> x) @@ d :
                    d \in parses(Tail(fmt), SubSeq(text, Len(x) + 1, Len(text)))} :
                x \in {y \in Values : startswith(text, y)}}

(* The fixed template of a variant: its format, after the switch keyword   *)
(* and a space for the variants that have one in their text.               *)
wireFmt(v) ==
    IF v \in {"enableServer", "disableServer"}
    THEN <<Lit(switch(v)), Lit(<<" ">>)>> \o cmdTxt(v)
    ELSE cmdTxt(v)

(* The mappings of the required parameters that render to this text: a     *)
(* required parameter the template does not name may have any value.       *)
ReqPreimage(v, text) ==
    UNION {{d @@ e : e \in [RequiredSet(v) \ DOMAIN d -> Values]} :
           d \in parses(wireFmt(v), text)}

RequiredArgs(i) == [k \in RequiredSet(ctor[i].cls) |-> ctor[i].kwargs[k]]

(* No required value of instance i holds a slash or a space. *)
NoDelimiters(i) ==
    \A k \in RequiredSet(ctor[i].cls) :
        \A n \in 1..Len(ctor[i].kwargs[k]) : ctor[i].kwargs[k][n] \notin {"/", " "}

(* C9 as stated: for any variant and any accepted mapping, the rendered    *)
(* text determines the required parameter values: the accepted mappings of  *)
(* the required parameters that render to the same text are the original.   *)
C9_RoundTrip_AsStated ==
    (ret.op = "getCmd" /\ ret.out.ok) =>
        ReqPreimage(ret.cls, ret.out.val) = {RequiredArgs(ret.inst)}

(* C9 amended: for any variant but listServers, whose text does not carry  *)
(* its required parameter, and any accepted mapping whose required values   *)
(* hold no slash and no space, the rendered text determines the required    *)
(* parameter values: re-parsing it against the template of the variant      *)
(* gives the original values and no others.                                 *)
C9_RoundTrip ==
    (ret.op = "getCmd" /\ ret.out.ok /\ ret.cls # "listServers"
        /\ NoDelimiters(ret.inst)) =>
        ReqPreimage(ret.cls, ret.out.val) = {RequiredArgs(ret.inst)}

C9_Witness ==
    /\ ret.op = "getCmd"
    /\ ret.cls = "setWeight"
    /\ RequiredArgs(1) = (s_backend :> <<"w">>) @@ (s_server :> <<>>) @@ (s_weight :> <<"w">>)
    /\ ret.out.val = <<"s", "e", "t", " ", "w", "e", "i", "g", "h", "t", " ",
                       "w", "/", " ", "w", "\r", "\n">>
    /\ ReqPreimage(ret.cls, ret.out.val) = {RequiredArgs(1)}

(* C10: whatever was built and called before, on any instances and with    *)
(* constructions that failed among them, the class attribute args is never  *)
(* written, every instance keeps the class and the parameters it was built  *)
(* with, getCmd gives what those parameters alone give, a decoder gives     *)
(* what those parameters and the reply of the call alone give, and the      *)
(* column map is that of the reply of the call, not of an earlier one.      *)
C10_HistoryIndependent ==
    /\ clsArgs = EmptyDict
    /\ \A i \in Insts :
           /\ objs[i].cls = ctor[i].cls
           /\ objs[i].cls # "none" => selfArgs(i) = ctor[i].kwargs
    /\ ret.op = "getCmd" =>
           ret.out = getCmd(ctor[ret.inst].cls, ctor[ret.inst].kwargs)
    /\ ret.op = "getResult" =>
           ret.out = getResult(ctor[ret.inst].cls, ctor[ret.inst].kwargs, ret.arg)
    /\ ret.op = "getResultObj" =>
           ret.out = getResultObj(ctor[ret.inst].cls, ctor[ret.inst].kwargs, ret.arg)
    /\ (ret.op \in {"getResult", "getResultObj"} /\ ret.cls = "listServers") =>
           cols = IF getCols(ret.arg).ok THEN getCols(ret.arg).val ELSE EmptyDict

C10_Witness ==
    /\ ret.op = "getResultObj"
    /\ ret.inst = 2
    /\ ret.cls = "listServers"
    /\ ret.arg = join(<<"\n">>, <<HdrRev, RowServer, RowFront2>>)
    /\ ret.out.ok
    /\ Len(ret.out.val) = 1
    /\ cols[s_svname] = 5
    /\ objs[1].cls = "listServers"
    /\ objs[1].args # objs[2].args

----------------------------------------------------------------------------
(* What the specification says of a reply, read off the reply itself. *)

LinesOf(res) == split(res, "\n")

FieldsOf(line) == split(line, ",")

Colons(line) == Cardinality({n \in 1..Len(line) : line[n] = ":"})

(* The field of a line at a zero-based position; no field of any line when *)
(* the line is too short.                                                   *)
FieldAt(line, k) ==
    IF k < Len(FieldsOf(line)) THEN FieldsOf(line)[k + 1] ELSE <<"\n">>

HasHeader(res) == Len(LinesOf(res)[1]) >= 1 /\ LinesOf(res)[1][1] = "#"

HeaderNames(res) == FieldsOf(Tail(LinesOf(res)[1]))

HeaderHas(res, name) == \E n \in 1..Len(HeaderNames(res)) : HeaderNames(res)[n] = name

(* The zero-based position the header gives a column name. *)
PositionOf(res, name) ==
    (CHOOSE n \in 1..Len(HeaderNames(res)) : HeaderNames(res)[n] = name) - 1

ReportColumns == <<s_svname, s_status, s_weight, s_bin, s_bout>>

HasReportColumns(res) ==
    HasHeader(res) /\ \A n \in 1..Len(ReportColumns) : HeaderHas(res, ReportColumns[n])

IsServerLine(res, backend, line) ==
    /\ FieldsOf(line)[1] = backend
    /\ FieldAt(line, PositionOf(res, s_svname)) # s_BACKEND

ReportOf(res, line) ==
    <<"N", "a", "m", "e", ":", " ">> \o FieldAt(line, PositionOf(res, s_svname))
    \o <<" ", "S", "t", "a", "t", "u", "s", ":", " ">> \o FieldAt(line, PositionOf(res, s_status))
    \o <<" ", "W", "e", "i", "g", "h", "t", ":", " ">> \o FieldAt(line, PositionOf(res, s_weight))
    \o <<" ", "b", "I", "n", ":", " ">> \o FieldAt(line, PositionOf(res, s_bin))
    \o <<" ", "b", "O", "u", "t", ":", " ">> \o FieldAt(line, PositionOf(res, s_bout))

ExpectedReports(res, backend) ==
    LET sel == SelectSeq(LinesOf(res), LAMBDA line : IsServerLine(res, backend, line))
    IN  [n \in 1..Len(sel) |-> ReportOf(res, sel[n])]

TypeTag(v) ==
    IF v = "showFrontends" THEN <<"F", "R", "O", "N", "T", "E", "N", "D">>
    ELSE <<"B", "A", "C", "K", "E", "N", "D">>

(* The line does not start with a comma and holds ,TYPE, later in it. *)
IsTypeLine(v, line) ==
    LET pat == <<",">> \o TypeTag(v) \o <<",">>
    IN  /\ Len(line) >= 1
        /\ line[1] # ","
        /\ \E k \in 2..(Len(line) - Len(pat) + 1) : SubSeq(line, k, k + Len(pat) - 1) = pat

ExpectedNames(v, res) ==
    LET sel == SelectSeq(LinesOf(res), LAMBDA line : IsTypeLine(v, line))
    IN  [n \in 1..Len(sel) |-> FieldsOf(sel[n])[1]]

InfoLinesOf(res) == SelectSeq(LinesOf(res), LAMBDA line : Len(line) > 0)

ExpectedInfo(res) ==
    LET ls == InfoLinesOf(res)
        key(n) == split(ls[n], ":")[1]
        keys == {key(n) : n \in 1..Len(ls)}
        last(k) == CHOOSE n \in 1..Len(ls) :
                      key(n) = k /\ \A m \in 1..Len(ls) : key(m) = k => m <= n
    IN  [k \in keys |-> split(ls[last(k)], ":")[2]]

IsDecode(cls) == ret.op = "getResultObj" /\ ret.cls = cls

----------------------------------------------------------------------------
(* C3: showInfo.getResultObj, on a reply whose every non-empty line holds  *)
(* exactly one colon, a trailing newline or not, returns the mapping from   *)
(* the text before the colon to the text after it and does not fail; a      *)
(* non-empty line without a colon makes the decode fail.                    *)
C3_ShowInfo_AsStated ==
    IsDecode("showInfo") =>
        /\ (\A n \in 1..Len(InfoLinesOf(ret.arg)) : Colons(InfoLinesOf(ret.arg)[n]) = 1) =>
               (ret.out.ok /\ ret.out.val = ExpectedInfo(ret.arg))
        /\ (\E n \in 1..Len(InfoLinesOf(ret.arg)) : Colons(InfoLinesOf(ret.arg)[n]) = 0) =>
               ~ret.out.ok

(* C4 as stated: the empty reply, given to the decoder of showFrontends or *)
(* showBackends or to listServers.getResultObj with any backend name,       *)
(* returns the empty sequence and raises nothing; getCols fails on it.      *)
C4_EmptyReply_AsStated ==
    /\ (ret.op = "getResultObj" /\ ret.cls \in StatVariants /\ Len(ret.arg) = 0) =>
           ret.out = Return(<<>>)
    /\ (ret.op = "getCols" /\ Len(ret.arg) = 0) => ~ret.out.ok

(* C4 amended: the empty reply, given to the decoder of showFrontends or   *)
(* showBackends, returns the empty sequence and raises nothing; getCols     *)
(* fails on it, and so does listServers.getResultObj with any backend name, *)
(* with the error of getCols.                                               *)
C4_EmptyReply ==
    /\ (ret.op = "getResultObj" /\ ret.cls \in {"showFrontends", "showBackends"}
            /\ Len(ret.arg) = 0) =>
           ret.out = Return(<<>>)
    /\ (ret.op = "getResultObj" /\ ret.cls = "listServers" /\ Len(ret.arg) = 0) =>
           ret.out = Raise("Exception", s_CouldNotParse)
    /\ (ret.op = "getCols" /\ Len(ret.arg) = 0) =>
           ret.out = Raise("Exception", s_CouldNotParse)

C4_Witness ==
    /\ IsDecode("listServers")
    /\ Len(ret.arg) = 0
    /\ ctor[1].kwargs[s_backend] = <<"w">>
    /\ ~ret.out.ok

(* C5 as stated: for a reply whose header holds svname, status, weight,    *)
(* bin and bout and for any backend name, listServers.getResultObj returns, *)
(* in line order, one report for each line whose first field is the backend *)
(* name and whose svname field is not BACKEND, and none for another line,   *)
(* each report made of the fields at the positions the header gives.        *)
C5_ListServers_AsStated ==
    (IsDecode("listServers") /\ HasReportColumns(ret.arg)) =>
        /\ ret.out.ok
        /\ ret.out.val = ExpectedReports(ret.arg, ctor[ret.inst].kwargs[s_backend])

(* Every line whose first field is the backend name has a field at every   *)
(* position the header gives the five columns.                             *)
BackendLinesComplete(res, backend) ==
    \A n \in 1..Len(LinesOf(res)) :
        FieldsOf(LinesOf(res)[n])[1] = backend =>
            \A c \in 1..Len(ReportColumns) :
                PositionOf(res, ReportColumns[c]) < Len(FieldsOf(LinesOf(res)[n]))

(* C5 amended: as stated, for a backend name that holds no comma and a     *)
(* reply in which every line whose first field is the backend name has a    *)
(* field at each of the five positions.                                     *)
C5_ListServers ==
    (/\ IsDecode("listServers")
     /\ HasReportColumns(ret.arg)
     /\ \A n \in 1..Len(ctor[ret.inst].kwargs[s_backend]) :
            ctor[ret.inst].kwargs[s_backend][n] # ","
     /\ BackendLinesComplete(ret.arg, ctor[ret.inst].kwargs[s_backend])) =>
        /\ ret.out.ok
        /\ ret.out.val = ExpectedReports(ret.arg, ctor[ret.inst].kwargs[s_backend])

C5_Witness ==
    /\ IsDecode("listServers")
    /\ ctor[1].kwargs[s_backend] = <<"w">>
    /\ ret.arg = join(<<"\n">>, <<HdrRev, RowFront2, RowServer>>)
    /\ ret.out.ok
    /\ ret.out.val = << <<"N", "a", "m", "e", ":", " ", "2", " ",
                          "S", "t", "a", "t", "u", "s", ":", " ", "1", " ",
                          "W", "e", "i", "g", "h", "t", ":", " ", "5", " ",
                          "b", "I", "n", ":", " ", "U", " ",
                          "b", "O", "u", "t", ":", " ", "s">> >>

(* C6: for a reply with a parsable header that lacks one of svname,        *)
(* status, weight, bin, bout, listServers.getResultObj fails as a whole,    *)
(* whatever the backend name and the rows.                                  *)
C6_MissingColumn_AsStated ==
    (IsDecode("listServers") /\ HasHeader(ret.arg) /\ ~HasReportColumns(ret.arg)) =>
        ~ret.out.ok

(* C7: the decoders of showFrontends and showBackends return, in line      *)
(* order, the first field of exactly the lines that do not start with a     *)
(* comma and hold ,FRONTEND, or ,BACKEND, later in the line, whatever the   *)
(* length of the name; the other lines are skipped without error.           *)
C7_FilterByType_AsStated ==
    (ret.op = "getResultObj" /\ ret.cls \in {"showFrontends", "showBackends"}) =>
        ret.out = Return(ExpectedNames(ret.cls, ret.arg))

(* C8: getCols, on a reply whose first line is # and distinct column names *)
(* joined by commas, returns the mapping of each name to its zero-based     *)
(* place in that line, whatever the later lines; on a reply whose first     *)
(* line does not start with #, the empty reply and a reply with a # line    *)
(* further down among them, it fails.                                       *)
C8_GetCols ==
    ret.op = "getCols" =>
        IF HasHeader(ret.arg)
        THEN (\A m, n \in 1..Len(HeaderNames(ret.arg)) :
                  HeaderNames(ret.arg)[m] = HeaderNames(ret.arg)[n] => m = n) =>
                 /\ ret.out.ok
                 /\ DOMAIN ret.out.val =
                        {HeaderNames(ret.arg)[n] : n \in 1..Len(HeaderNames(ret.arg))}
                 /\ \A n \in 1..Len(HeaderNames(ret.arg)) :
                        ret.out.val[HeaderNames(ret.arg)[n]] = n - 1
        ELSE ~ret.out.ok

C8_Witness ==
    /\ ret.op = "getCols"
    /\ ret.arg = join(<<"\n">>, <<HdrRev, RowServer, HdrStd>>)
    /\ ret.out.ok
    /\ ret.out.val = (<<"p", "x", "n", "a", "m", "e">> :> 0) @@ (s_bout :> 1)
                     @@ (s_bin :> 2) @@ (s_weight :> 3) @@ (s_status :> 4) @@ (s_svname :> 5)

====
